---- MODULE Spec2Model ----
(***************************************************************************)
(* State-machine model of frontend/src/App.js: the AuthProvider session    *)
(* store, the LandingPage / Dashboard route guards, the AuthModal login    *)
(* flow and the Dashboard's profile / history / chat requests.             *)
(*                                                                         *)
(* One action is one run of an event handler or of a promise continuation  *)
(* on the single-threaded event loop, together with the re-render and the  *)
(* effects it causes (a <Navigate> redirect, a mount effect).              *)
(***************************************************************************)
EXTENDS Integers, Sequences, FiniteSets, Bags, TLC

\* ---------------------------------------------------------------- bounds
MaxTurns == 2        \* most turns a history response or the chat list holds
MaxInFlight == 3     \* most requests outstanding at once
MaxSelected == 3     \* most entries of the interests or the strengths array

\* ------------------------------------------------------------ value sets
Absent == "absent"                       \* null / undefined / no such key
Principals == {"u1", "u2"}               \* response.data.user
Tokens == {"t1", "t2"}                   \* response.data.access_token
\* the {user, access_token} pairs the Auth service answers with
Logins == {<<"u1", "t1">>, <<"u2", "t2">>}
\* the texts typed into the chat input: empty, blank, visible, and visible
\* with blanks around it
Strings == {<<>>, <<" ">>, <<"a">>, <<" ", "a", " ">>}
Replies == {"r"}                         \* response.data.response
Details == {Absent, "detail"}            \* error.response?.data?.detail
Statuses == {"401", "500"}               \* error.response.status
Paths == {"/", "/dashboard"}             \* the two <Route path=...>
TabNames == {"assessment", "recommendations", "chat"}

AuthEndpoints == {"/auth/login", "/auth/register"}
ProtectedEndpoints ==
  {"/profile", "/chat/history", "/chat", "POST /profile", "/assessment/analyze"}

\* `Bearer ${token}`, and the header deleted or never set
Bearer(t) == <<"Bearer", t>>
NoHeader == <<>>
\* useState(null) of Dashboard's profile
NoProfile == [null |-> TRUE]

\* String.prototype.trim
RECURSIVE TrimStart(_)
TrimStart(s) == IF s = <<>> THEN s
                ELSE IF Head(s) = " " THEN TrimStart(Tail(s)) ELSE s
RECURSIVE TrimEnd(_)
TrimEnd(s) == IF s = <<>> THEN s
              ELSE IF s[Len(s)] = " " THEN TrimEnd(SubSeq(s, 1, Len(s) - 1)) ELSE s
Trim(s) == TrimEnd(TrimStart(s))

\* a load that displays the response in the order it came
Reverse_identity(s) == s

\* Array.prototype.reverse
Reverse(s) == [i \in 1..Len(s) |-> s[Len(s) + 1 - i]]

\* the turns GET /chat/history can return (each stored turn once, in either
\* order), and the profiles GET /profile can
Turn(m, r, ts) == [message |-> m, response |-> r, timestamp |-> ts]
ServerTurns == {Turn(<<"a">>, "r", 1), Turn(<<"a", "a">>, "r", 2)}
\* new Date().toISOString() of a turn sent now: later than every stored turn
Now == 1 + Cardinality(ServerTurns)
Histories ==
  {h \in UNION {[1..n -> ServerTurns] : n \in 0..MaxTurns} :
     \A i, j \in 1..Len(h) : h[i] = h[j] => i = j}
ServerProfiles ==
  {[academic_level |-> "undergraduate", current_class |-> "", stream |-> "science",
    subjects |-> <<>>, grades |-> <<>>, interests |-> <<>>, strengths |-> <<>>,
    career_goals |-> "", user_id |-> "u1", updated_at |-> "ts"]}

\* AssessmentForm: useState({academic_level: '', ...})
InitialFormData ==
  [academic_level |-> "", current_class |-> "", stream |-> "",
   subjects |-> <<>>, grades |-> <<>>, interests |-> <<>>, strengths |-> <<>>,
   career_goals |-> ""]
\* the <SelectItem value=...> of the Academic Level select
AcademicLevels == {"high_school", "undergraduate", "postgraduate"}
\* the level the user picks in the runs checked
PickedLevels == {"high_school"}

\* {...formData, user_id: 'current_user'}
SaveBody(fd) == [f \in DOMAIN fd \cup {"user_id"} |->
                   IF f = "user_id" THEN "current_user" ELSE fd[f]]

\* a destructuring that takes out the identity only
profileData_keepsTimestamp(p) == [f \in DOMAIN p \ {"user_id"} |-> p[f]]

\* const {user_id, updated_at, ...profileData} = profile
profileData(p) == [f \in DOMAIN p \ {"user_id", "updated_at"} |-> p[f]]

\* RecommendationsView: useState(null), and the response.data of
\* POST /assessment/analyze, an analysis of the body it was sent
NoRecommendations == [null |-> TRUE]
Analysis(body) == [analysis |-> body]

VARIABLES
  stored,        \* localStorage 'token'
  user,          \* AuthProvider: useState(null)
  token,         \* AuthProvider: useState(localStorage.getItem('token'))
  header,        \* axios.defaults.headers.common['Authorization']
  page,          \* the route element on screen: "boot" before the first render
  showAuth,      \* LandingPage: useState(false)
  isLogin,       \* AuthModal: useState(true)
  authIsLoading, \* AuthModal: isLoading
  activeTab,     \* Dashboard: useState('assessment')
  profile,       \* Dashboard: useState(null)
  chatMessages,  \* Dashboard: useState([])
  chatInput,     \* Dashboard: useState('')
  isLoading,     \* Dashboard: isLoading
  formData,      \* AssessmentForm: useState({...})
  formIsLoading, \* AssessmentForm: isLoading
  recommendations, \* RecommendationsView: useState(null)
  recIsLoading,  \* RecommendationsView: isLoading
  generated,     \* the body of this view's last generate since the last save
  net,           \* the requests awaiting their response (a bag)
  last,          \* the handler that ran last, with its inputs
  sent,          \* the requests that handler issued
  alert          \* the message that handler showed with alert()

session == <<stored, user, token, header>>
landing == <<showAuth, isLogin, authIsLoading>>
tabs == <<formData, formIsLoading, recommendations, recIsLoading, generated>>
dashboard == <<activeTab, profile, chatMessages, chatInput, isLoading, tabs>>
vars == <<stored, user, token, header, page, showAuth, isLogin, authIsLoading,
          activeTab, profile, chatMessages, chatInput, isLoading,
          formData, formIsLoading, recommendations, recIsLoading, generated,
          net, last, sent, alert>>

\* ---------------------------------------------------------- the requests
\* A pending axios call: the endpoint, the principal it was issued under,
\* whether the Dashboard (or AuthModal) that awaits it is still mounted,
\* whether the tab content that awaits it is, and what its continuation
\* closes over: chatInput and chatMessages, or formData / the request body.
Request(ep, by, input, msgs, data) ==
  [ep |-> ep, by |-> by, live |-> TRUE, view |-> TRUE,
   input |-> input, msgs |-> msgs, data |-> data]

\* what the server sees of a request: endpoint, Authorization header and
\* body, with the session it was issued under
Wire(ep, auth, u, t, body) ==
  [ep |-> ep, auth |-> auth, user |-> u, token |-> t, body |-> body]

One(r) == SetToBag({r})

\* A state setter called on an unmounted component does nothing: when the
\* component awaiting the requests to eps unmounts, their continuations lose
\* every effect on the state, and what they close over no longer matters.
RECURSIVE Unmounted(_, _)
Unmounted(b, eps) ==
  IF BagToSet(b) = {} THEN EmptyBag
  ELSE LET r == CHOOSE x \in BagToSet(b) : TRUE
           rest == [x \in BagToSet(b) \ {r} |-> b[x]]
           d == IF r.ep \in eps
                  THEN [r EXCEPT !.live = FALSE, !.view = FALSE, !.by = Absent,
                                 !.input = <<>>, !.msgs = <<>>, !.data = NoProfile]
                  ELSE r
       IN  (d :> b[r]) (+) Unmounted(rest, eps)

\* <TabsContent>: the content of a tab that is not selected is not rendered.
\* Leaving a tab unmounts AssessmentForm / RecommendationsView: the setters of
\* the unmounted view do nothing any more, while onProfileUpdate (Dashboard's
\* setProfile) of an outstanding save still acts.
RECURSIVE LeaveTab(_)
LeaveTab(b) ==
  IF BagToSet(b) = {} THEN EmptyBag
  ELSE LET r == CHOOSE x \in BagToSet(b) : TRUE
           rest == [x \in BagToSet(b) \ {r} |-> b[x]]
           d == IF r.ep = "/assessment/analyze"
                  THEN [r EXCEPT !.view = FALSE, !.by = Absent, !.data = NoProfile]
                  ELSE IF r.ep = "POST /profile" THEN [r EXCEPT !.view = FALSE]
                  ELSE r
       IN  (d :> b[r]) (+) LeaveTab(rest)

InFlight == BagCardinality(net)

\* ------------------------------------------------------ the route guards
\* LandingPage: if (user) return <Navigate to="/dashboard" />
LandingPage(u) == IF u # Absent THEN "/dashboard" ELSE "landing"
\* Dashboard: if (!user) return <Navigate to="/" />
Dashboard(u) == IF u = Absent THEN "/" ELSE "dashboard"
\* <Routes>: the element a path ends up showing, redirects followed
Routes(path, u) ==
  IF path = "/dashboard"
    THEN (IF Dashboard(u) = "/" THEN "landing" ELSE "dashboard")
    ELSE (IF LandingPage(u) = "/dashboard" THEN "dashboard" ELSE "landing")

\* ----------------------------------------------------------- the session
\* login without localStorage.setItem('token', userToken)
login_unpersisted(userData, userToken) ==
  /\ user' = userData
  /\ token' = userToken
  /\ stored' = stored
  /\ header' = Bearer(userToken)

\* AuthProvider.login
login(userData, userToken) ==
  /\ user' = userData
  /\ token' = userToken
  /\ stored' = userToken
  /\ header' = Bearer(userToken)

\* logout without localStorage.removeItem('token')
logout_keepsStorage ==
  /\ user' = Absent
  /\ token' = Absent
  /\ stored' = stored
  /\ header' = NoHeader

\* AuthProvider.logout
logout ==
  /\ user' = Absent
  /\ token' = Absent
  /\ stored' = Absent
  /\ header' = NoHeader

\* AuthProvider: useEffect(() => { if (token) ... }, [token])
ArmEffect(t, h) == IF t # Absent THEN Bearer(t) ELSE h

\* the state a component has when it mounts
FreshLanding == showAuth' = FALSE /\ isLogin' = TRUE /\ authIsLoading' = FALSE
FreshTabs ==
  /\ formData' = InitialFormData
  /\ formIsLoading' = FALSE
  /\ recommendations' = NoRecommendations
  /\ recIsLoading' = FALSE
  /\ generated' = NoProfile
FreshDashboard ==
  /\ activeTab' = "assessment"
  /\ profile' = NoProfile
  /\ chatMessages' = <<>>
  /\ chatInput' = <<>>
  /\ isLoading' = FALSE
  /\ FreshTabs

\* Dashboard: useEffect(() => { fetchProfile(); fetchChatHistory(); }, []),
\* the two requests its mount issues, and what the server sees of them under
\* Authorization header auth
MountRequests(by) ==
  One(Request("/profile", by, <<>>, <<>>, NoProfile))
    (+) One(Request("/chat/history", by, <<>>, <<>>, NoProfile))
MountWires(auth, u, t) ==
  {Wire("/profile", auth, u, t, NoProfile), Wire("/chat/history", auth, u, t, NoProfile)}

\* the record of the handler that ran last: the session transitions, the
\* first render and sendChatMessage are told apart, with their inputs
Did(op, u, t, arg) == [op |-> op, user |-> u, token |-> t, arg |-> arg]
Other == Did("other", Absent, Absent, Absent)
\* a rejected request to ep whose catch block ran in a mounted component
Failed(r, status) ==
  IF r.live THEN [op |-> "failed", user |-> Absent, token |-> Absent,
                  arg |-> r.ep, status |-> status]
  ELSE Other

Init ==
  /\ stored \in Tokens \cup {Absent}
  /\ user = Absent
  /\ token = stored
  /\ header = NoHeader
  /\ page = "boot"
  /\ showAuth = FALSE /\ isLogin = TRUE /\ authIsLoading = FALSE
  /\ activeTab = "assessment" /\ profile = NoProfile /\ chatMessages = <<>>
  /\ chatInput = <<>> /\ isLoading = FALSE
  /\ formData = InitialFormData /\ formIsLoading = FALSE
  /\ recommendations = NoRecommendations /\ recIsLoading = FALSE
  /\ generated = NoProfile
  /\ net = EmptyBag
  /\ last = Did("load", Absent, Absent, Absent)
  /\ sent = {}
  /\ alert = Absent


\* ------------------------------------------------------- load and render
\* The first render after a page load at path.  user is null on the first
\* render, so "/dashboard" renders Dashboard, whose hooks run before its
\* guard returns <Navigate to="/">.  Mount effects run children first:
\* Dashboard's effect issues its two requests before AuthProvider's effect
\* arms the header.  The redirect then unmounts Dashboard.
Mount(path) ==
  /\ page = "boot"
  /\ header' = ArmEffect(token, header)
  /\ page' = Routes(path, user)
  /\ IF path = "/dashboard"
       THEN /\ net' = net (+) (IF page' = "dashboard"
                                 THEN MountRequests(user)
                                 ELSE Unmounted(MountRequests(user), ProtectedEndpoints))
            /\ sent' = MountWires(header, user, token)
       ELSE /\ net' = net
            /\ sent' = {}
  /\ last' = Did("mount", Absent, Absent, path)
  /\ alert' = Absent
  /\ UNCHANGED <<stored, user, token, landing, dashboard>>

\* The page is loaded again (a reload, a typed URL): every component and the
\* axios defaults are rebuilt, the outstanding requests are aborted, and only
\* localStorage survives.
Reload ==
  /\ page # "boot"
  /\ user' = Absent
  /\ token' = stored
  /\ header' = NoHeader
  /\ page' = "boot"
  /\ FreshLanding
  /\ FreshDashboard
  /\ net' = EmptyBag
  /\ last' = Did("load", Absent, Absent, Absent)
  /\ sent' = {}
  /\ alert' = Absent
  /\ UNCHANGED stored

\* --------------------------------------------------------- the AuthModal
\* LandingPage: onClick={() => setShowAuth(true)}
OpenAuth ==
  /\ page = "landing"
  /\ ~showAuth
  /\ showAuth' = TRUE
  /\ last' = Other
  /\ sent' = {}
  /\ alert' = Absent
  /\ UNCHANGED <<session, page, isLogin, authIsLoading, dashboard, net>>

\* AuthModal: the Close button, onClose = () => setShowAuth(false); the
\* modal unmounts with its state
CloseAuth ==
  /\ page = "landing"
  /\ showAuth
  /\ FreshLanding
  /\ net' = Unmounted(net, AuthEndpoints)
  /\ last' = Other
  /\ sent' = {}
  /\ alert' = Absent
  /\ UNCHANGED <<session, page, dashboard>>

\* AuthModal: onClick={() => setIsLogin(!isLogin)}
ToggleMode ==
  /\ page = "landing"
  /\ showAuth
  /\ isLogin' = ~isLogin
  /\ last' = Other
  /\ sent' = {}
  /\ alert' = Absent
  /\ UNCHANGED <<session, page, showAuth, authIsLoading, dashboard, net>>

\* AuthModal.handleSubmit, up to the await; the submit button is
\* disabled={isLoading}
AuthModal_handleSubmit ==
  /\ page = "landing"
  /\ showAuth
  /\ ~authIsLoading
  /\ InFlight < MaxInFlight
  /\ LET endpoint == IF isLogin THEN "/auth/login" ELSE "/auth/register" IN
       /\ net' = net (+) One(Request(endpoint, user, <<>>, <<>>, NoProfile))
       /\ sent' = {Wire(endpoint, header, user, token, NoProfile)}
  /\ authIsLoading' = TRUE
  /\ last' = Other
  /\ alert' = Absent
  /\ UNCHANGED <<session, page, showAuth, isLogin, dashboard>>

\* AuthModal.handleSubmit after the await, the request fulfilled with
\* {user: userData, access_token: userToken}: login(), onClose(), finally.
\* With user set, LandingPage returns <Navigate to="/dashboard">: the landing
\* page and its modal unmount and a new Dashboard mounts and runs its effect.
\* A Dashboard that is already on screen stays mounted, with its state.
AuthSuccess(r, userData, userToken) ==
  /\ r \in BagToSet(net)
  /\ r.ep \in AuthEndpoints
  /\ login(userData, userToken)
  /\ page' = "dashboard"
  /\ FreshLanding
  /\ IF page = "landing"
       THEN /\ InFlight + 1 <= MaxInFlight
            /\ FreshDashboard
            /\ net' = Unmounted(net (-) One(r), AuthEndpoints) (+) MountRequests(user')
            /\ sent' = MountWires(header', user', token')
       ELSE /\ UNCHANGED dashboard
            /\ net' = net (-) One(r)
            /\ sent' = {}
  /\ last' = Did("login", userData, userToken, r.ep)
  /\ alert' = Absent

\* a catch block that only logs
Caught_silent(detail) == Absent

\* AuthModal.handleSubmit, catch: alert(error.response?.data?.detail ||
\* 'Authentication failed')
Caught(detail) == IF detail # Absent THEN detail ELSE "Authentication failed"

\* AuthModal.handleSubmit after the await, the request rejected: the catch
\* block and finally
AuthFailure(r, detail) ==
  /\ r \in BagToSet(net)
  /\ r.ep \in AuthEndpoints
  /\ alert' = Caught(detail)
  /\ authIsLoading' = IF r.live THEN FALSE ELSE authIsLoading
  /\ net' = net (-) One(r)
  /\ last' = Did("loginFailed", Absent, Absent, r.ep)
  /\ sent' = {}
  /\ UNCHANGED <<session, page, showAuth, isLogin, dashboard>>

\* Dashboard: onClick={logout}.  With user null, Dashboard returns
\* <Navigate to="/">: it unmounts and LandingPage mounts.
Logout ==
  /\ page = "dashboard"
  /\ logout
  /\ page' = Routes("/dashboard", user')
  /\ FreshLanding
  /\ FreshDashboard
  /\ net' = Unmounted(net, ProtectedEndpoints)
  /\ last' = Did("logout", Absent, Absent, Absent)
  /\ sent' = {}
  /\ alert' = Absent

\* --------------------------------------------------------- the Dashboard
\* <Tabs value={activeTab} onValueChange={setActiveTab}>
SelectTab(tab) ==
  /\ page = "dashboard"
  /\ tab # activeTab
  /\ activeTab' = tab
  /\ FreshTabs
  /\ net' = LeaveTab(net)
  /\ last' = Other
  /\ sent' = {}
  /\ alert' = Absent
  /\ UNCHANGED <<session, page, landing, profile, chatMessages, chatInput, isLoading>>

\* a textarea that stays enabled while a send is outstanding
TextareaDisabled_never == FALSE

\* ChatInterface: <Textarea disabled={isLoading}>
TextareaDisabled == isLoading
\* ChatInterface: <Button disabled={isLoading || !input.trim()}>
SendDisabled == isLoading \/ Trim(chatInput) = <<>>

\* ChatInterface: onChange={(e) => setInput(e.target.value)}
TypeChat(s) ==
  /\ page = "dashboard"
  /\ activeTab = "chat"
  /\ ~TextareaDisabled
  /\ s # chatInput
  /\ chatInput' = s
  /\ last' = Other
  /\ sent' = {}
  /\ alert' = Absent
  /\ UNCHANGED <<session, page, landing, activeTab, profile, chatMessages, isLoading, tabs, net>>

\* if (!chatInput) return, without the trim
Rejected_untrimmed(input) == input = <<>>

\* sendChatMessage: if (!chatInput.trim()) return
Rejected(input) == Trim(input) = <<>>

\* Dashboard.sendChatMessage, up to the await
sendChatMessage ==
  /\ IF Rejected(chatInput)
       THEN /\ sent' = {}
            /\ UNCHANGED <<isLoading, net>>
       ELSE /\ InFlight < MaxInFlight
            /\ Len(chatMessages) < MaxTurns
            /\ isLoading' = TRUE
            /\ net' = net (+) One(Request("/chat", user, chatInput, chatMessages, NoProfile))
            /\ sent' = {Wire("/chat", header, user, token, NoProfile)}
  /\ alert' = Absent
  /\ UNCHANGED <<session, page, landing, activeTab, profile, chatMessages, chatInput, tabs>>

\* ChatInterface: <Button onClick={onSend}>
ClickSend ==
  /\ page = "dashboard"
  /\ activeTab = "chat"
  /\ ~SendDisabled
  /\ sendChatMessage
  /\ last' = Did("sendChatMessage", Absent, Absent, "click")

\* the keypress events of the textarea: Enter or another key, with any of
\* the four modifier keys held
KeyEvents ==
  [key : {"Enter", "a"}, shiftKey : BOOLEAN, ctrlKey : BOOLEAN,
   altKey : BOOLEAN, metaKey : BOOLEAN]

\* ChatInterface.handleKeyPress: if (e.key === 'Enter' && !e.shiftKey)
\* { e.preventDefault(); onSend(); }
handleKeyPress(e) ==
  IF e.key = "Enter" /\ ~e.shiftKey
    THEN /\ sendChatMessage
         /\ last' = Did("sendChatMessage", Absent, Absent, "Enter")
    ELSE /\ last' = Other
         /\ sent' = {}
         /\ alert' = Absent
         /\ UNCHANGED <<session, page, landing, dashboard, net>>

\* <Textarea onKeyPress={handleKeyPress} disabled={isLoading}>
KeyPress(e) ==
  /\ page = "dashboard"
  /\ activeTab = "chat"
  /\ ~TextareaDisabled
  /\ handleKeyPress(e)

\* sendChatMessage after the await, the request fulfilled with {response: reply}
ChatSuccess(r, reply) ==
  /\ r \in BagToSet(net)
  /\ r.ep = "/chat"
  /\ IF r.live
       THEN /\ chatMessages' = Append(r.msgs, Turn(r.input, reply, Now))
            /\ chatInput' = <<>>
            /\ isLoading' = FALSE
       ELSE UNCHANGED <<chatMessages, chatInput, isLoading>>
  /\ net' = net (-) One(r)
  /\ last' = Other
  /\ sent' = {}
  /\ alert' = Absent
  /\ UNCHANGED <<session, page, landing, activeTab, profile, tabs>>

\* a catch block that gives the user an empty input back
ChatFailure_clearsInput(r) ==
  /\ r \in BagToSet(net)
  /\ r.ep = "/chat"
  /\ isLoading' = IF r.live THEN FALSE ELSE isLoading
  /\ chatInput' = IF r.live THEN <<>> ELSE chatInput
  /\ net' = net (-) One(r)
  /\ last' = Failed(r, "error")
  /\ sent' = {}
  /\ alert' = Absent
  /\ UNCHANGED <<session, page, landing, activeTab, profile, chatMessages, tabs>>

\* sendChatMessage after the await, the request rejected
ChatFailure(r) ==
  /\ r \in BagToSet(net)
  /\ r.ep = "/chat"
  /\ isLoading' = IF r.live THEN FALSE ELSE isLoading
  /\ net' = net (-) One(r)
  /\ last' = Failed(r, "error")
  /\ sent' = {}
  /\ alert' = Absent
  /\ UNCHANGED <<session, page, landing, activeTab, profile, chatMessages, chatInput, tabs>>

\* fetchProfile after the await: setProfile(response.data), or the catch
ProfileSuccess(r, data) ==
  /\ r \in BagToSet(net)
  /\ r.ep = "/profile"
  /\ profile' = IF r.live THEN data ELSE profile
  /\ net' = net (-) One(r)
  /\ last' = Other
  /\ sent' = {}
  /\ alert' = Absent
  /\ UNCHANGED <<session, page, landing, activeTab, chatMessages, chatInput, isLoading, tabs>>

ProfileFailure(r) ==
  /\ r \in BagToSet(net)
  /\ r.ep = "/profile"
  /\ net' = net (-) One(r)
  /\ last' = Failed(r, "error")
  /\ sent' = {}
  /\ alert' = Absent
  /\ UNCHANGED <<session, page, landing, dashboard>>

\* fetchChatHistory after the await: setChatMessages(response.data.reverse()),
\* or the catch
HistorySuccess(r, data) ==
  /\ r \in BagToSet(net)
  /\ r.ep = "/chat/history"
  /\ chatMessages' = IF r.live THEN Reverse(data) ELSE chatMessages
  /\ net' = net (-) One(r)
  /\ last' = IF r.live THEN Did("fetchChatHistory", Absent, Absent, data) ELSE Other
  /\ sent' = {}
  /\ alert' = Absent
  /\ UNCHANGED <<session, page, landing, activeTab, profile, chatInput, isLoading, tabs>>

\* the catch logs whatever the error is: a 401 as well as a 500
HistoryFailure(r, status) ==
  /\ r \in BagToSet(net)
  /\ r.ep = "/chat/history"
  /\ net' = net (-) One(r)
  /\ last' = Failed(r, status)
  /\ sent' = {}
  /\ alert' = Absent
  /\ UNCHANGED <<session, page, landing, dashboard>>

\* some of the values of const interests = [...] and const strengths = [...]
InterestOptions == {"Technology", "Science"}
StrengthOptions == {"Analysis", "Leadership"}

\* Array.prototype.includes
Includes(list, v) == \E i \in 1..Len(list) : list[i] = v

\* Array.prototype.filter(i => i !== v)
RECURSIVE Filter(_, _)
Filter(list, v) ==
  IF list = <<>> THEN <<>>
  ELSE IF Head(list) = v THEN Filter(Tail(list), v)
  ELSE <<Head(list)>> \o Filter(Tail(list), v)

\* a positional edit: unchecking takes the last entry out
onCheckedChange_positional(list, v, checked) ==
  IF checked THEN Append(list, v)
  ELSE IF list = <<>> THEN list ELSE SubSeq(list, 1, Len(list) - 1)

\* the onCheckedChange of an interest or strength <Checkbox>: the new list
onCheckedChange(list, v, checked) ==
  IF checked THEN Append(list, v) ELSE Filter(list, v)

\* a click on the checkbox of v in field, whose list was before; twice says
\* that the step before was a click on the same checkbox, and origin is the
\* list before that click
Toggled(field, v, before) ==
  LET twice == last.op = "toggle" /\ last.arg.field = field /\ last.arg.value = v
  IN  Did("toggle", Absent, Absent,
          [field |-> field, value |-> v, before |-> before, twice |-> twice,
           origin |-> IF twice THEN last.arg.before ELSE before])

\* a click on the <Checkbox> of interest v: checked={interests.includes(v)},
\* and the click asks for the opposite
ToggleInterest(v) ==
  /\ page = "dashboard"
  /\ activeTab = "assessment"
  /\ formData' = [formData EXCEPT !.interests =
                     onCheckedChange(@, v, ~Includes(@, v))]
  /\ last' = Toggled("interests", v, formData.interests)
  /\ sent' = {}
  /\ alert' = Absent
  /\ UNCHANGED <<session, page, landing, activeTab, profile, chatMessages, chatInput,
                 isLoading, formIsLoading, recommendations, recIsLoading, generated, net>>

\* a click on the <Checkbox> of strength v
ToggleStrength(v) ==
  /\ page = "dashboard"
  /\ activeTab = "assessment"
  /\ formData' = [formData EXCEPT !.strengths =
                     onCheckedChange(@, v, ~Includes(@, v))]
  /\ last' = Toggled("strengths", v, formData.strengths)
  /\ sent' = {}
  /\ alert' = Absent
  /\ UNCHANGED <<session, page, landing, activeTab, profile, chatMessages, chatInput,
                 isLoading, formIsLoading, recommendations, recIsLoading, generated, net>>

\* the Academic Level <Select onValueChange>; the other fields of the form
\* are left as they start
SelectLevel(v) ==
  /\ page = "dashboard"
  /\ activeTab = "assessment"
  /\ v # formData.academic_level
  /\ formData' = [formData EXCEPT !.academic_level = v]
  /\ last' = Other
  /\ sent' = {}
  /\ alert' = Absent
  /\ UNCHANGED <<session, page, landing, activeTab, profile, chatMessages, chatInput,
                 isLoading, formIsLoading, recommendations, recIsLoading, generated, net>>

\* AssessmentForm.handleSubmit up to the await; the submit button is disabled
\* while isLoading, and nothing in the form is required
AssessmentForm_handleSubmit ==
  /\ page = "dashboard"
  /\ activeTab = "assessment"
  /\ ~formIsLoading
  /\ InFlight < MaxInFlight
  /\ formIsLoading' = TRUE
  /\ net' = net (+) One(Request("POST /profile", user, <<>>, <<>>, formData))
  /\ last' = Other
  /\ sent' = {Wire("POST /profile", header, user, token, SaveBody(formData))}
  /\ alert' = Absent
  /\ UNCHANGED <<session, page, landing, activeTab, profile, chatMessages, chatInput,
                 isLoading, formData, recommendations, recIsLoading, generated>>

\* handleSubmit after the await: onProfileUpdate(formData), the alert, finally
SaveSuccess(r) ==
  /\ r \in BagToSet(net)
  /\ r.ep = "POST /profile"
  /\ profile' = IF r.live THEN r.data ELSE profile
  /\ generated' = IF r.live THEN NoProfile ELSE generated
  /\ formIsLoading' = IF r.view THEN FALSE ELSE formIsLoading
  /\ net' = net (-) One(r)
  /\ last' = IF r.live THEN Did("save", Absent, Absent, r.data) ELSE Other
  /\ sent' = {}
  /\ alert' = "Profile saved successfully!"
  /\ UNCHANGED <<session, page, landing, activeTab, chatMessages, chatInput, isLoading,
                 formData, recommendations, recIsLoading>>

\* a save without its finally block
SaveFailure_staysBusy(r) ==
  /\ r \in BagToSet(net)
  /\ r.ep = "POST /profile"
  /\ net' = net (-) One(r)
  /\ last' = Failed(r, "error")
  /\ sent' = {}
  /\ alert' = "Failed to save profile"
  /\ UNCHANGED <<session, page, landing, dashboard>>

SaveFailure(r) ==
  /\ r \in BagToSet(net)
  /\ r.ep = "POST /profile"
  /\ formIsLoading' = IF r.view THEN FALSE ELSE formIsLoading
  /\ net' = net (-) One(r)
  /\ last' = Failed(r, "error")
  /\ sent' = {}
  /\ alert' = "Failed to save profile"
  /\ UNCHANGED <<session, page, landing, activeTab, profile, chatMessages, chatInput,
                 isLoading, formData, recommendations, recIsLoading, generated>>

\* RecommendationsView.generateRecommendations up to the await
generateRecommendations ==
  IF profile = NoProfile
    THEN UNCHANGED <<recIsLoading, net, generated>> /\ sent' = {}
    ELSE /\ recIsLoading' = TRUE
         /\ net' = net (+) One(Request("/assessment/analyze", user, <<>>, <<>>,
                                       profileData(profile)))
         /\ generated' = profileData(profile)
         /\ sent' = {Wire("/assessment/analyze", header, user, token,
                          profileData(profile))}

\* "Generate Recommendations" / "Regenerate Recommendations": rendered only
\* with a profile, disabled while isLoading
ClickGenerate ==
  /\ page = "dashboard"
  /\ activeTab = "recommendations"
  /\ profile # NoProfile
  /\ ~recIsLoading
  /\ InFlight < MaxInFlight
  /\ generateRecommendations
  /\ last' = Did("generate", Absent, Absent, generated)
  /\ alert' = Absent
  /\ UNCHANGED <<session, page, landing, activeTab, profile, chatMessages, chatInput,
                 isLoading, formData, formIsLoading, recommendations>>

\* generateRecommendations after the await: setRecommendations(response.data)
GenerateSuccess(r) ==
  /\ r \in BagToSet(net)
  /\ r.ep = "/assessment/analyze"
  /\ recommendations' = IF r.view THEN Analysis(r.data) ELSE recommendations
  /\ recIsLoading' = IF r.view THEN FALSE ELSE recIsLoading
  /\ net' = net (-) One(r)
  /\ last' = Other
  /\ sent' = {}
  /\ alert' = Absent
  /\ UNCHANGED <<session, page, landing, activeTab, profile, chatMessages, chatInput,
                 isLoading, formData, formIsLoading, generated>>

\* a catch block that takes the presented recommendation away
GenerateFailure_clears(r) ==
  /\ r \in BagToSet(net)
  /\ r.ep = "/assessment/analyze"
  /\ recIsLoading' = IF r.view THEN FALSE ELSE recIsLoading
  /\ recommendations' = IF r.view THEN NoRecommendations ELSE recommendations
  /\ net' = net (-) One(r)
  /\ last' = Failed(r, "error")
  /\ sent' = {}
  /\ alert' = "Failed to generate recommendations. Please try again."
  /\ UNCHANGED <<session, page, landing, activeTab, profile, chatMessages, chatInput,
                 isLoading, formData, formIsLoading, generated>>

GenerateFailure(r) ==
  /\ r \in BagToSet(net)
  /\ r.ep = "/assessment/analyze"
  /\ recIsLoading' = IF r.view THEN FALSE ELSE recIsLoading
  /\ net' = net (-) One(r)
  /\ last' = Failed(r, "error")
  /\ sent' = {}
  /\ alert' = "Failed to generate recommendations. Please try again."
  /\ UNCHANGED <<session, page, landing, activeTab, profile, chatMessages, chatInput,
                 isLoading, formData, formIsLoading, recommendations, generated>>

\* signing in and moving between the tabs; the sign-in answers come from L
Entry(L) ==
  \/ \E path \in Paths : Mount(path)
  \/ OpenAuth
  \/ AuthModal_handleSubmit
  \/ \E r \in BagToSet(net), l \in L : AuthSuccess(r, l[1], l[2])
  \/ \E tab \in TabNames : SelectTab(tab)

\* the other steps of the landing page and of the session
Exit ==
  \/ Reload
  \/ CloseAuth
  \/ ToggleMode
  \/ \E r \in BagToSet(net), d \in Details : AuthFailure(r, d)
  \/ Logout

\* the answers to the two loads of Dashboard's mount effect; the histories
\* come from H
Loads(H) ==
  \/ \E r \in BagToSet(net), data \in ServerProfiles : ProfileSuccess(r, data)
  \/ \E r \in BagToSet(net) : ProfileFailure(r)
  \/ \E r \in BagToSet(net), data \in H : HistorySuccess(r, data)
  \/ \E r \in BagToSet(net), status \in Statuses : HistoryFailure(r, status)

\* ChatInterface and sendChatMessage; the texts typed come from S
Chat(S) ==
  \/ \E s \in S : TypeChat(s)
  \/ ClickSend
  \/ \E e \in KeyEvents : KeyPress(e)
  \/ \E r \in BagToSet(net), reply \in Replies : ChatSuccess(r, reply)
  \/ \E r \in BagToSet(net) : ChatFailure(r)

\* AssessmentForm and RecommendationsView
Advice ==
  \/ \E v \in PickedLevels : SelectLevel(v)
  \/ AssessmentForm_handleSubmit
  \/ \E r \in BagToSet(net) : SaveSuccess(r)
  \/ \E r \in BagToSet(net) : SaveFailure(r)
  \/ ClickGenerate
  \/ \E r \in BagToSet(net) : GenerateSuccess(r)
  \/ \E r \in BagToSet(net) : GenerateFailure(r)

\* the interest and strength checkboxes of AssessmentForm
Toggles ==
  \/ \E v \in InterestOptions : ToggleInterest(v)
  \/ \E v \in StrengthOptions : ToggleStrength(v)

Next ==
  Entry(Logins) \/ Exit \/ Loads(Histories) \/ Chat(Strings) \/ Advice \/ Toggles

Spec == Init /\ [][Next]_vars

\* the histories of at most one turn
ShortHistories == {h \in Histories : Len(h) <= 1}

\* the user's runs that leave the assessment and the recommendations alone
SpecChat == Init /\ [][Entry(Logins) \/ Exit \/ Loads(Histories) \/ Chat(Strings)]_vars
\* the user's runs that leave the chat alone
SpecAdvice == Init /\ [][Entry(Logins) \/ Exit \/ Loads(ShortHistories) \/ Advice]_vars
\* the runs of one user who signs in once and stays signed in
SpecStay ==
  Init /\ [][Entry({<<"u1", "t1">>}) \/ Loads({<<>>}) \/ Chat({<<"a">>}) \/ Advice]_vars
\* the runs of one user who signs in and ticks the checkboxes of the form
SpecForm == Init /\ [][Entry({<<"u1", "t1">>}) \/ Loads({<<>>}) \/ Toggles]_vars

\* the settling of the request that a mounted component is waiting for: the
\* promise of axios is fulfilled or rejected and the continuation of the
\* handler runs
OneLogin == {<<"u1", "t1">>}
AuthSettles ==
  \E r \in BagToSet(net) :
    /\ r.ep \in AuthEndpoints /\ r.live
    /\ \/ \E l \in OneLogin : AuthSuccess(r, l[1], l[2])
       \/ \E d \in Details : AuthFailure(r, d)
SendSettles ==
  \E r \in BagToSet(net) :
    /\ r.ep = "/chat" /\ r.live
    /\ \/ \E reply \in Replies : ChatSuccess(r, reply)
       \/ ChatFailure(r)
SaveSettles ==
  \E r \in BagToSet(net) :
    /\ r.ep = "POST /profile" /\ r.view
    /\ SaveSuccess(r) \/ SaveFailure(r)
GenerateSettles ==
  \E r \in BagToSet(net) :
    /\ r.ep = "/assessment/analyze" /\ r.view
    /\ GenerateSuccess(r) \/ GenerateFailure(r)

\* the runs of one user who stays once signed in, in which every request that
\* is waited for settles
SpecSettling ==
  /\ Init
  /\ [][\/ Entry(OneLogin)
        \/ \E r \in BagToSet(net), d \in Details : AuthFailure(r, d)
        \/ Loads({<<>>})
        \/ Chat({<<"a">>})
        \/ Advice]_vars
  /\ WF_vars(AuthSettles)
  /\ WF_vars(SendSettles)
  /\ WF_vars(SaveSettles)
  /\ WF_vars(GenerateSettles)

\* the arrays the clicks on the checkboxes of opts can leave: no value twice
RECURSIVE Selections(_)
Selections(opts) ==
  IF opts = {} THEN {<<>>}
  ELSE LET v == CHOOSE x \in opts : TRUE
           rest == Selections(opts \ {v})
       IN  rest \cup {Append(l, v) : l \in rest}
                \cup {<<v>> \o l : l \in rest}

\* u1 signed in, the loads of the mount effect failed, the form filled in
InitSetOps ==
  /\ stored = "t1" /\ user = "u1" /\ token = "t1" /\ header = Bearer("t1")
  /\ page = "dashboard"
  /\ showAuth = FALSE /\ isLogin = TRUE /\ authIsLoading = FALSE
  /\ activeTab = "assessment"
  /\ profile = NoProfile
  /\ chatMessages = <<>> /\ chatInput = <<>> /\ isLoading = FALSE
  /\ \E i \in Selections(InterestOptions), st \in Selections(StrengthOptions) :
       formData = [InitialFormData EXCEPT !.interests = i, !.strengths = st]
  /\ formIsLoading = FALSE
  /\ recommendations = NoRecommendations /\ recIsLoading = FALSE
  /\ generated = NoProfile
  /\ net = EmptyBag
  /\ last = Other
  /\ sent = {}
  /\ alert = Absent

\* the onCheckedChange of the checkbox of v in field, called with checked
CheckedChange(field, v, checked) ==
  /\ page = "dashboard"
  /\ activeTab = "assessment"
  /\ Len(formData[field]) < MaxSelected
  /\ formData' = [formData EXCEPT ![field] = onCheckedChange(@, v, checked)]
  /\ last' = Did("onCheckedChange", Absent, Absent,
                 [field |-> field, value |-> v, checked |-> checked,
                  before |-> formData[field]])
  /\ sent' = {}
  /\ alert' = Absent
  /\ UNCHANGED <<session, page, landing, activeTab, profile, chatMessages, chatInput,
                 isLoading, formIsLoading, recommendations, recIsLoading, generated, net>>

\* the two handlers as functions of their argument: every value of checked
\* that the <Checkbox> component can call them with
SpecSetOps ==
  InitSetOps
    /\ [][\/ \E v \in InterestOptions, checked \in BOOLEAN :
               CheckedChange("interests", v, checked)
          \/ \E v \in StrengthOptions, checked \in BOOLEAN :
               CheckedChange("strengths", v, checked)]_vars

\* ================================================================ claims

\* C1: after every successful login (the Auth service answered with a user
\* and a token) the principal and the token are both present, and the token
\* in localStorage is the token that was issued.
C1_LoginSetsSession ==
  last.op = "login" =>
    /\ last.user # Absent /\ last.token # Absent
    /\ user = last.user
    /\ token = last.token
    /\ stored = last.token
C1_Witness == last.op = "login" /\ stored = "t2" /\ user = "u2" /\ token = "t2"

\* C2: in every state after the page has rendered, the principal is present
\* if and only if the token is present.
C2_PrincipalIffToken ==
  page # "boot" => ((user # Absent) <=> (token # Absent))

\* C3: right after every logout localStorage holds no token, principal and
\* token are absent, the Authorization header is deleted and the landing view
\* is on screen; and from then until a login response arrives the session
\* stays cleared and every access to the dashboard route, a new page load at
\* "/dashboard" included, ends on the landing view.
C3_Cleared ==
  stored = Absent /\ user = Absent /\ token = Absent /\ header = NoHeader
C3_LogoutClears ==
  /\ [](last.op = "logout" =>
          C3_Cleared /\ page = "landing" /\ Routes("/dashboard", user) = "landing")
  /\ [][(C3_Cleared /\ page # "dashboard" /\ last'.op # "login") =>
          (C3_Cleared' /\ page' # "dashboard"
           /\ (last'.op = "mount" => page' = "landing"))]_vars
C3_Witness == last.op = "logout" /\ page = "landing" /\ header = NoHeader

\* C4: a failed login or registration request leaves principal, token,
\* localStorage and the Authorization header as they were, and shows the
\* failure in an alert.
C4_FailureKeepsSession ==
  [][last'.op = "loginFailed" =>
       (UNCHANGED <<stored, user, token, header>> /\ alert' # Absent)]_vars
C4_Witness ==
  /\ last.op = "loginFailed" /\ last.arg = "/auth/register"
  /\ user # Absent /\ alert = "Authentication failed"

\* C5: when the page loads at "/dashboard" with a token in localStorage, the
\* route guard lets the dashboard show.
C5_RestoredSessionAllowed ==
  (last.op = "mount" /\ last.arg = "/dashboard" /\ token # Absent) => page = "dashboard"

\* C6: the view on screen follows the session alone: a session that holds a
\* token (restored or logged in) shows the dashboard, a session without one
\* shows the landing view, after every transition.
C6_GuardFollowsSession ==
  page # "boot" =>
    IF token # Absent THEN page = "dashboard" ELSE page = "landing"

\* C7: every request to a protected endpoint is issued while a principal and
\* a token are present and carries 'Bearer <t>' for the current token t.
C7_RequestsCarryToken ==
  \A w \in sent :
    w.ep \in ProtectedEndpoints =>
      w.user # Absent /\ w.token # Absent /\ w.auth = Bearer(w.token)

\* C8: the armed Authorization header never changes from one token directly
\* to another: a state with no header lies between.
C8_ClearBeforeArm ==
  [][(header # NoHeader /\ header' # NoHeader) => header' = header]_vars

\* the chat sends awaiting their response: all of them, and those of the
\* Dashboard on screen
Sends(liveOnly) ==
  LET S == {r \in BagToSet(net) : r.ep = "/chat" /\ (liveOnly => r.live)}
  IN  BagCardinality([r \in S |-> net[r]])

\* C9 as claimed: at most one chat send is in flight at any time.
C9_OneSendInFlight == Sends(FALSE) <= 1

\* C9 as amended: at most one chat send of the Dashboard on screen is in
\* flight, and one is in flight exactly while isLoading holds.
C9_OneSendPerDashboard ==
  /\ Sends(TRUE) <= 1
  /\ isLoading <=> Sends(TRUE) = 1
C9_Witness == Sends(TRUE) = 1 /\ Sends(FALSE) = 2 /\ isLoading

\* C10: a send with an empty or whitespace-only input issues no request and
\* leaves the input, the turns and the sending flag as they were.
IsBlank(s) == \A i \in 1..Len(s) : s[i] = " "
C10_BlankSendIsNoOp ==
  [][(last'.op = "sendChatMessage" /\ IsBlank(chatInput)) =>
       (sent' = {} /\ UNCHANGED <<chatInput, chatMessages, isLoading, net>>)]_vars
C10_Witness ==
  /\ last.op = "sendChatMessage" /\ last.arg = "Enter"
  /\ chatInput = <<" ">> /\ sent = {} /\ ~isLoading


\* a is b with some elements left out: every element of a is in b, in the
\* same relative order
RECURSIVE IsSubseq(_, _)
IsSubseq(a, b) ==
  IF a = <<>> THEN TRUE
  ELSE IF b = <<>> THEN FALSE
  ELSE IF Head(a) = Head(b) THEN IsSubseq(Tail(a), Tail(b))
  ELSE IsSubseq(a, Tail(b))

\* C11: while one Dashboard is displayed the turns are append-only: every turn
\* displayed before a step is displayed after it, in the same relative order,
\* and a successful send adds exactly one turn, the sent text with the
\* returned reply, at the end of the turns displayed before it.
C11_AppendOnly ==
  [][(page = "dashboard" /\ page' = "dashboard")
       => /\ IsSubseq(chatMessages, chatMessages')
          /\ \A r \in BagToSet(net), reply \in Replies :
               (ChatSuccess(r, reply) /\ r.live)
                 => /\ Len(chatMessages') = Len(chatMessages) + 1
                    /\ SubSeq(chatMessages', 1, Len(chatMessages)) = chatMessages
                    /\ chatMessages'[Len(chatMessages')].message = r.input
                    /\ chatMessages'[Len(chatMessages')].response = reply]_vars

\* C12: when a chat send fails in the displayed Dashboard, the input holds the
\* text that was sent, the turns are as they were, and the send is enabled
\* again for that text; the program empties a non-empty input only when a
\* send succeeds (otherwise the user deleted the text).
C12_FailedSendKeepsInput ==
  [][/\ \A r \in BagToSet(net) :
          (ChatFailure(r) /\ r.live)
            => /\ chatInput' = r.input
               /\ chatMessages' = chatMessages
               /\ ~isLoading'
               /\ ~SendDisabled'
               /\ ~Rejected(chatInput')
     /\ (page = "dashboard" /\ page' = "dashboard"
           /\ chatInput # <<>> /\ chatInput' = <<>>)
          => \/ \E r \in BagToSet(net), reply \in Replies :
                  ChatSuccess(r, reply) /\ r.live
             \/ TypeChat(<<>>)]_vars

\* a send of the padded text has just failed and the text is still there
C12_Witness ==
  /\ last.op = "failed" /\ last.arg = "/chat"
  /\ page = "dashboard"
  /\ chatInput = <<" ", "a", " ">>
  /\ ~isLoading

\* the order of a sequence of turns by their timestamps
NewestFirst(h) == \A i \in 1..(Len(h) - 1) : h[i].timestamp > h[i + 1].timestamp
OldestFirst(h) == \A i \in 1..(Len(h) - 1) : h[i].timestamp < h[i + 1].timestamp

\* C13: after a history load the turns displayed are the turns of the response
\* in reverse order, so a response that is newest-first is displayed
\* oldest-first.
C13_HistoryOldestFirst ==
  last.op = "fetchChatHistory"
    => /\ Len(chatMessages) = Len(last.arg)
       /\ \A i \in 1..Len(chatMessages) :
            chatMessages[i] = last.arg[Len(last.arg) + 1 - i]
       /\ NewestFirst(last.arg) => OldestFirst(chatMessages)

\* a newest-first response of two turns has just been displayed
C13_Witness ==
  /\ last.op = "fetchChatHistory"
  /\ Len(last.arg) = 2
  /\ NewestFirst(last.arg)
  /\ chatMessages[1].timestamp = 1

\* C14: when the history load of the displayed Dashboard is answered 401
\* (expired or invalid token), the session is cleared, the landing page is
\* displayed and no turns are left.
C14_UnauthorizedHistoryClears ==
  (last.op = "failed" /\ last.arg = "/chat/history" /\ last.status = "401")
    => /\ stored = Absent /\ user = Absent /\ token = Absent
       /\ page = "landing"
       /\ chatMessages = <<>>

\* C15: a generate request is issued only when a profile exists, and its body
\* is that profile without the identity and the server timestamp: it has
\* neither field, it has every other field of the profile with the same
\* value, and nothing else; the academic fields of the form are all there.
C15_GeneratePayload ==
  \A w \in sent :
    w.ep = "/assessment/analyze"
      => /\ profile # NoProfile
         /\ DOMAIN w.body = DOMAIN profile \ {"user_id", "updated_at"}
         /\ \A f \in DOMAIN w.body : w.body[f] = profile[f]
         /\ DOMAIN InitialFormData \subseteq DOMAIN w.body

\* generate has just been issued for a profile loaded from the server
C15_Witness ==
  /\ last.op = "generate"
  /\ \E w \in sent : w.ep = "/assessment/analyze"
  /\ profile \in ServerProfiles

\* C16: a generate issued after another generate of the same view, with no
\* successful save in between, sends the body the earlier one sent.
C16_RegenerateSamePayload ==
  (last.op = "generate" /\ last.arg # NoProfile) => generated = last.arg

\* C17: a save that succeeds in the displayed Dashboard and changes the
\* profile leaves no recommendation presented: the recommendation computed
\* from the profile as it was before is gone after the step.
C17_SaveInvalidates ==
  [][\A r \in BagToSet(net) :
       (SaveSuccess(r) /\ r.live /\ profile' # profile)
         => recommendations' = NoRecommendations]_vars

\* C18: a save request is sent only with an academic level that is one of
\* the enumerated values.
C18_SaveNeedsLevel ==
  \A w \in sent :
    w.ep = "POST /profile" => w.body.academic_level \in AcademicLevels

\* C19: while a Dashboard is displayed, the response to a protected request
\* that was issued under another session than the present one changes
\* neither the profile nor the recommendation nor the turns.
C19_StaleResponseDropped ==
  [][\A r \in BagToSet(net) :
       (/\ page = "dashboard" /\ page' = "dashboard"
        /\ r.ep \in ProtectedEndpoints
        /\ r.by # user
        /\ net' = net (-) One(r))
         => UNCHANGED <<profile, recommendations, chatMessages>>]_vars

\* C20: a failed request changes no cached state: whichever of the five
\* requests fails (profile load, save, generate, history load, send), the
\* profile, the recommendation and the turns are after the step what they
\* were before it.
C20_FailureKeepsCache ==
  [][\A r \in BagToSet(net) :
       (\/ ProfileFailure(r)
        \/ SaveFailure(r)
        \/ GenerateFailure(r)
        \/ \E status \in Statuses : HistoryFailure(r, status)
        \/ ChatFailure(r))
         => UNCHANGED <<profile, recommendations, chatMessages>>]_vars

\* a regenerate has just failed with a profile, a recommendation and a turn
\* on display
C20_Witness ==
  /\ last.op = "failed" /\ last.arg = "/assessment/analyze"
  /\ profile # NoProfile
  /\ recommendations # NoRecommendations
  /\ chatMessages # <<>>

\* the elements of a list
Range(list) == {list[i] : i \in 1..Len(list)}

\* C21: after a click on the checkbox of a value right after a click on the
\* same checkbox, the set of values selected is the set that was selected
\* before the first of the two clicks, for interests and for strengths.
C21_ToggleTwice ==
  (last.op = "toggle" /\ last.arg.twice)
    => Range(formData[last.arg.field]) = Range(last.arg.origin)

\* "Technology" was unticked and has just been ticked again: it is selected
\* as before the two clicks, now behind "Science"
C21_Witness ==
  /\ last.op = "toggle" /\ last.arg.twice
  /\ last.arg.field = "interests" /\ last.arg.value = "Technology"
  /\ last.arg.origin = <<"Technology", "Science">>
  /\ formData.interests = <<"Science", "Technology">>

C23_EarliestFirstAnyOrder ==
  last.op = "fetchChatHistory" => OldestFirst(chatMessages)

\* C24: after a save has succeeded in the displayed Dashboard the profile is
\* the data that was submitted, and the step that follows changes the profile
\* only if it is another successful save: a load response does not.
C24_SavedProfileStays ==
  [][/\ last'.op = "save" => profile' = last'.arg
     /\ (last.op = "save" /\ page' = "dashboard" /\ last'.op # "save")
          => profile' = profile]_vars

\* C25: the profile load and the history load are issued only by a step that
\* leaves a principal signed in and the Dashboard displayed, once each: not
\* by an anonymous visit of /dashboard that is redirected.
C25_LoadsOnlyAuthenticated ==
  (\E w \in sent : w.ep \in {"/profile", "/chat/history"})
    => /\ user # Absent
       /\ page = "dashboard"
       /\ \A w \in sent : w.user = user
       /\ Cardinality(sent) = 2

\* C26: when every request that is waited for settles, each loading flag
\* that is set is eventually reset: that of the sign-in, of the save, of the
\* generate and of the send, after which a further send is possible.
C26_BusyIsLeft ==
  /\ authIsLoading ~> ~authIsLoading
  /\ formIsLoading ~> ~formIsLoading
  /\ recIsLoading ~> ~recIsLoading
  /\ isLoading ~> ~isLoading

\* a send has failed and the chat is idle again, the text ready to be resent
C26_Witness ==
  /\ last.op = "failed" /\ last.arg = "/chat"
  /\ page = "dashboard" /\ activeTab = "chat"
  /\ ~isLoading /\ ~SendDisabled

\* no modifier key is held
NoModifier(e) == ~e.shiftKey /\ ~e.ctrlKey /\ ~e.altKey /\ ~e.metaKey

\* C27: an Enter keystroke in the chat input calls the send exactly when no
\* modifier key is held; with Shift, Ctrl, Alt or Meta held it does not.
C27_EnterSendsUnmodified ==
  [][\A e \in KeyEvents :
       (KeyPress(e) /\ e.key = "Enter")
         => (last'.op = "sendChatMessage" <=> NoModifier(e))]_vars

====
